---- MODULE Spec2Model ----
(***************************************************************************)
(* Model of the loan pipeline of app.py: safe scalar converters, division  *)
(* canonicalizer, loan-type classifier, normalize_row and load_data.       *)
(*                                                                         *)
(* Text is a sequence of one-character strings, so that strip, lower,      *)
(* startswith, replace and float() are computed character by character.    *)
(* A Python value is a record [ty, s, n, e]: ty is its type, s its text    *)
(* (str, bytes, date), n its integer value or decimal mantissa, and e the  *)
(* number of fractional decimal digits of a float (value = n / 10^e).      *)
(***************************************************************************)
EXTENDS Integers, Sequences, FiniteSets, TLC

----------------------------------------------------------------------------
(* Text helpers (Python str methods)                                       *)

LowerLetters ==
    <<"a","b","c","d","e","f","g","h","i","j","k","l","m",
      "n","o","p","q","r","s","t","u","v","w","x","y","z">>

UpperLetters ==
    <<"A","B","C","D","E","F","G","H","I","J","K","L","M",
      "N","O","P","Q","R","S","T","U","V","W","X","Y","Z">>

Digits == <<"0","1","2","3","4","5","6","7","8","9">>

NBSP == "<xa0>"

WhitespaceChars == {" ", "\t", "\n", NBSP}

IndexIn(seq, c) == CHOOSE i \in 1..Len(seq) : seq[i] = c

IsUpperChar(c) == \E i \in 1..Len(UpperLetters) : UpperLetters[i] = c

IsLowerChar(c) == \E i \in 1..Len(LowerLetters) : LowerLetters[i] = c

IsDigit(c) == \E i \in 1..Len(Digits) : Digits[i] = c

LowerChar(c) == IF IsUpperChar(c) THEN LowerLetters[IndexIn(UpperLetters, c)] ELSE c

UpperChar(c) == IF IsLowerChar(c) THEN UpperLetters[IndexIn(LowerLetters, c)] ELSE c

Lower(s) == [i \in 1..Len(s) |-> LowerChar(s[i])]

Upper(s) == [i \in 1..Len(s) |-> UpperChar(s[i])]

\* p occurs in s at position i
OccursAt(s, p, i) ==
    /\ i >= 1
    /\ i + Len(p) - 1 <= Len(s)
    /\ \A j \in 1..Len(p) : s[i + j - 1] = p[j]

StartsWith(s, p) == OccursAt(s, p, 1)

EndsWith(s, p) == OccursAt(s, p, Len(s) - Len(p) + 1)

\* p in s
Contains(s, p) == \E i \in 1..(Len(s) - Len(p) + 1) : OccursAt(s, p, i)

RECURSIVE LStrip(_)
LStrip(s) ==
    IF s # <<>> /\ Head(s) \in WhitespaceChars THEN LStrip(Tail(s)) ELSE s

RECURSIVE RStrip(_)
RStrip(s) ==
    IF s # <<>> /\ s[Len(s)] \in WhitespaceChars
    THEN RStrip(SubSeq(s, 1, Len(s) - 1))
    ELSE s

Strip(s) == RStrip(LStrip(s))

\* str.replace(old, new): one left-to-right pass over non-overlapping matches
RECURSIVE Replace(_, _, _)
Replace(s, old, new) ==
    IF s = <<>> THEN <<>>
    ELSE IF StartsWith(s, old)
         THEN new \o Replace(SubSeq(s, Len(old) + 1, Len(s)), old, new)
         ELSE <<Head(s)>> \o Replace(Tail(s), old, new)

\* str.title(): a cased letter is upper-cased after an uncased character
\* (or at the start) and lower-cased after a cased one
RECURSIVE TitleFrom(_, _)
TitleFrom(s, prevCased) ==
    IF s = <<>> THEN <<>>
    ELSE LET c == Head(s)
             cased == IsUpperChar(c) \/ IsLowerChar(c)
             out == IF ~cased THEN c
                    ELSE IF prevCased THEN LowerChar(c) ELSE UpperChar(c)
         IN  <<out>> \o TitleFrom(Tail(s), cased)

Title(s) == TitleFrom(s, FALSE)

----------------------------------------------------------------------------
(* Python values                                                           *)

PyNone == [ty |-> "None", s |-> <<>>, n |-> 0, e |-> 0]

PyStr(chars) == [ty |-> "str", s |-> chars, n |-> 0, e |-> 0]

PyBytes(chars) == [ty |-> "bytes", s |-> chars, n |-> 0, e |-> 0]

PyInt(i) == [ty |-> "int", s |-> <<>>, n |-> i, e |-> 0]

\* a float is kept as an exact decimal n / 10^e in lowest form
RECURSIVE PyFloat(_, _)
PyFloat(m, fe) ==
    IF fe > 0 /\ m % 10 = 0 THEN PyFloat(m \div 10, fe - 1)
    ELSE [ty |-> "float", s |-> <<>>, n |-> m, e |-> fe]

PyNaN == [ty |-> "nan", s |-> <<>>, n |-> 0, e |-> 0]

\* pandas.NaT, the null timestamp (an instance of datetime)
PyNaT == [ty |-> "NaT", s |-> <<>>, n |-> 0, e |-> 0]

\* datetime.date as produced by a DBF date column; s is its ISO text
PyDate(chars) == [ty |-> "date", s |-> chars, n |-> 0, e |-> 0]

IsFloat(v) == v.ty \in {"float", "nan"}

\* bool(v)
Truthy(v) ==
    CASE v.ty = "None" -> FALSE
      [] v.ty \in {"str", "bytes"} -> v.s # <<>>
      [] v.ty \in {"int", "float"} -> v.n # 0
      [] OTHER -> TRUE

\* a or b
PyOr(a, b) == IF Truthy(a) THEN a ELSE b

\* dict.get(key) with the default None
Get(d, k) == IF k \in DOMAIN d THEN d[k] ELSE PyNone

RECURSIVE Pow10(_)
Pow10(k) == IF k = 0 THEN 1 ELSE 10 * Pow10(k - 1)

RECURSIVE NatToChars(_)
NatToChars(k) ==
    IF k < 10 THEN <<Digits[k + 1]>>
    ELSE NatToChars(k \div 10) \o <<Digits[(k % 10) + 1]>>

RECURSIVE PadZeros(_, _)
PadZeros(chars, width) ==
    IF Len(chars) >= width THEN chars ELSE PadZeros(<<"0">> \o chars, width)

Abs(i) == IF i < 0 THEN -i ELSE i

\* str(v)
PyToStr(v) ==
    CASE v.ty = "None" -> <<"N","o","n","e">>
      [] v.ty = "str" -> v.s
      [] v.ty = "bytes" -> <<"b","'">> \o v.s \o <<"'">>
      [] v.ty = "int" ->
            (IF v.n < 0 THEN <<"-">> ELSE <<>>) \o NatToChars(Abs(v.n))
      [] v.ty = "float" ->
            (IF v.n < 0 THEN <<"-">> ELSE <<>>)
            \o NatToChars(Abs(v.n) \div Pow10(v.e))
            \o <<".">>
            \o (IF v.e = 0 THEN <<"0">>
                ELSE PadZeros(NatToChars(Abs(v.n) % Pow10(v.e)), v.e))
      [] v.ty = "nan" -> <<"n","a","n">>
      [] v.ty = "NaT" -> <<"N","a","T">>
      [] v.ty = "date" -> v.s

\* float + float
FAdd(a, b) ==
    IF a.ty = "nan" \/ b.ty = "nan" THEN PyNaN
    ELSE LET fe == IF a.e > b.e THEN a.e ELSE b.e
         IN  PyFloat(a.n * Pow10(fe - a.e) + b.n * Pow10(fe - b.e), fe)

\* int * float
FMulInt(i, a) == IF a.ty = "nan" THEN PyNaN ELSE PyFloat(i * a.n, a.e)

----------------------------------------------------------------------------
(* float(text): [sign] digits ["." [digits]] | [sign] "." digits | nan.    *)
(* Exponent, underscore and infinity spellings are not among the inputs.   *)

AllDigits(s) == \A i \in 1..Len(s) : IsDigit(s[i])

RECURSIVE DigitsToNat(_)
DigitsToNat(s) ==
    IF s = <<>> THEN 0
    ELSE 10 * DigitsToNat(SubSeq(s, 1, Len(s) - 1)) + (IndexIn(Digits, s[Len(s)]) - 1)

ParseFailed == [ok |-> FALSE, v |-> PyNaN]

\* the digits ip before and fp after the decimal point
ParseParts(ip, fp, neg) ==
    IF AllDigits(ip) /\ AllDigits(fp) /\ Len(ip) + Len(fp) > 0
    THEN [ok |-> TRUE,
          v |-> PyFloat((IF neg THEN -1 ELSE 1) * DigitsToNat(ip \o fp), Len(fp))]
    ELSE ParseFailed

\* position of the decimal point, or one past the end
DotAt(body, dots) == IF dots = {} THEN Len(body) + 1 ELSE CHOOSE i \in dots : TRUE

ParseDecimal(body, neg, dots) ==
    IF Cardinality(dots) > 1 THEN ParseFailed
    ELSE ParseParts(SubSeq(body, 1, DotAt(body, dots) - 1),
                    SubSeq(body, DotAt(body, dots) + 1, Len(body)), neg)

\* the text after the sign
ParseBody(body, neg) ==
    IF Lower(body) = <<"n","a","n">> THEN [ok |-> TRUE, v |-> PyNaN]
    ELSE ParseDecimal(body, neg, {i \in 1..Len(body) : body[i] = "."})

ParseSigned(t) ==
    IF t # <<>> /\ Head(t) \in {"+", "-"}
    THEN ParseBody(Tail(t), Head(t) = "-")
    ELSE ParseBody(t, FALSE)

ParseFloat(text) == ParseSigned(Strip(text))

\* int(f): truncation toward zero; raises on nan
TruncToInt(f) ==
    IF f.n >= 0 THEN f.n \div Pow10(f.e) ELSE -((-f.n) \div Pow10(f.e))

\* try: return float(s) / except (ValueError, TypeError): return default
FloatOrDefault(parsed, default) == IF parsed.ok THEN parsed.v ELSE default

\* the cleaned text s of _to_float_safe
FloatOfCleaned(s, default) ==
    IF s = <<>> THEN default ELSE FloatOrDefault(ParseFloat(s), default)

_to_float_safe(val, default) ==
    IF val.ty = "None" THEN default
    ELSE FloatOfCleaned(
             Replace(Replace(Replace(Strip(PyToStr(val)),
                 <<" ">>, <<>>), <<",">>, <<>>), <<NBSP>>, <<>>),
             default)

\* int(f_val), or default when float() or int() raises
IntOrDefault(parsed, default) ==
    IF ~parsed.ok \/ parsed.v.ty = "nan" THEN default
    ELSE PyInt(TruncToInt(parsed.v))

_to_int_safe(val, default) == IntOrDefault(ParseFloat(Strip(PyToStr(val))), default)

----------------------------------------------------------------------------
(* clean_division_name                                                     *)

\* the alias table, as (key, canonical label) pairs
division_map ==
    <<
       <<<<"a","d","m"," ","&"," ","k">>,
         <<"A","d","m"," ","&"," ","K">>>>,
       <<<<"a","d","m"," ","&"," ","k","e","u">>,
         <<"A","d","m"," ","&"," ","K">>>>,
       <<<<"a","d","m"," ","&"," ","a","c","c","t">>,
         <<"A","d","m"," ","&"," ","K">>>>,
       <<<<"f"," ","&"," ","a">>,
         <<"A","d","m"," ","&"," ","K">>>>,
       <<<<"m","o","a">>,
         <<"M","O","A">>>>,
       <<<<"m"," ","o"," ","a">>,
         <<"M","O","A">>>>,
       <<<<"l","o","g","i","s","t","i","k">>,
         <<"L","o","g","i","s","t","i","k">>>>,
       <<<<"l","o","g","i","s","t","i","c">>,
         <<"L","o","g","i","s","t","i","k">>>>,
       <<<<"t","e","k","n","i","k">>,
         <<"T","e","k","n","i","k">>>>,
       <<<<"t","e","h","n","i","k">>,
         <<"T","e","k","n","i","k">>>>,
       <<<<"b","u","s","d","e","v">>,
         <<"B","u","s","-","D","e","v">>>>,
       <<<<"b","u","s","-","d","e","v">>,
         <<"B","u","s","-","D","e","v">>>>,
       <<<<"g","d","g"," ","o","."," ","j","a","d">>,
         <<"G","d","g"," ","O","."," ","J","a","d">>>>,
       <<<<"g"," ","o"," ","j">>,
         <<"G","d","g"," ","O","."," ","J","a","d">>>>,
       <<<<"p","e","m","a","-","m","u","t","u">>,
         <<"P","e","m","-","M","u","t","u">>>>,
       <<<<"p","e","m","-","m","u","t","u">>,
         <<"P","e","m","-","M","u","t","u">>>>,
       <<<<"p","e","m","a","s","m","u","t","u">>,
         <<"P","e","m","-","M","u","t","u">>>>,
       <<<<"p","r","o","s","-","d","e","v">>,
         <<"P","r","o","s","-","D","e","v">>>>,
       <<<<"p","r","o","s","d","e","v">>,
         <<"P","r","o","s","-","D","e","v">>>>,
       <<<<"p","r","o","d">>,
         <<"P","r","o","d","u","k","s","i">>>>,
       <<<<"p","r","o","d","u","k","s","i">>,
         <<"P","r","o","d","u","k","s","i">>>>,
       <<<<"g","b","b">>,
         <<"G","d","g"," ","B","."," ","B","a","k">>>>,
       <<<<"g","d","g"," ","b","."," ","b","a","k">>,
         <<"G","d","g"," ","B","."," ","B","a","k">>>>
    >>

MarketingLabel == <<"M","a","r","k","e","t","i","n","g">>

\* division_map.get(cleaned_name, cleaned_name.title())
DivisionMapGet(cleaned_name, hits) ==
    IF hits # {} THEN division_map[CHOOSE i \in hits : TRUE][2]
    ELSE Title(cleaned_name)

CleanedDivision(cleaned_name) ==
    IF StartsWith(cleaned_name, <<"p","e","n","j">>) THEN MarketingLabel
    ELSE DivisionMapGet(cleaned_name,
             {i \in 1..Len(division_map) : division_map[i][1] = cleaned_name})

\* variant: the prefix is tested on the text as given, not lower-cased
CleanDivisionCaseSensitive(name) == CleanedDivision(Strip(name))

clean_division_name(name) == CleanedDivision(Lower(Strip(name)))

----------------------------------------------------------------------------
(* normalize_row                                                           *)

\* str(k) of every field name that occurs in a record of the model
FieldChars ==
    [
       NOPEG |-> <<"N","O","P","E","G">>,
       NAMA |-> <<"N","A","M","A">>,
       BAGIAN |-> <<"B","A","G","I","A","N">>,
       JML |-> <<"J","M","L">>,
       JML_DDL |-> <<"J","M","L","_","D","D","L">>,
       JUMLAH |-> <<"J","U","M","L","A","H">>,
       LAMA |-> <<"L","A","M","A">>,
       CICIL |-> <<"C","I","C","I","L">>,
       BUNGA1 |-> <<"B","U","N","G","A","1">>,
       CICILAN |-> <<"C","I","C","I","L","A","N">>,
       ANG1 |-> <<"A","N","G","1">>,
       ang2 |-> <<"a","n","g","2">>,
       Ang3 |-> <<"A","n","g","3">>,
       ANG4 |-> <<"A","N","G","4">>,
       ANG5 |-> <<"A","N","G","5">>,
       TANGGAL |-> <<"T","A","N","G","G","A","L">>,
       KET |-> <<"K","E","T">>,
       ANGSURAN_KE |-> <<"A","N","G","S","U","R","A","N","_","K","E">>,
       SISA_ANGSURAN |-> <<"S","I","S","A","_","A","N","G","S","U","R","A","N">>,
       SISA_CICILAN |-> <<"S","I","S","A","_","C","I","C","I","L","A","N">>,
       TOTAL_TAGIHAN |-> <<"T","O","T","A","L","_","T","A","G","I","H","A","N">>,
       DIBAYAR |-> <<"D","I","B","A","Y","A","R">>,
       STATUS |-> <<"S","T","A","T","U","S">>,
       SRC_FILE |-> <<"S","R","C","_","F","I","L","E">>,
       JENIS |-> <<"J","E","N","I","S">>
    ]

STATUS_BELUM_BAYAR == <<"B","e","l","u","m"," ","B","a","y","a","r">>

STATUS_LUNAS == <<"L","u","n","a","s">>

STATUS_BERJALAN == <<"B","e","r","j","a","l","a","n">>

\* variant: the field name is compared without upper-casing it
IsPaymentMarkerCaseSensitive(k) == StartsWith(FieldChars[k], <<"A","N","G">>)

\* str(k).upper().startswith("ANG")
IsPaymentMarker(k) == StartsWith(Upper(FieldChars[k]), <<"A","N","G">>)

\* v in (None, "", b"", 0)
InEmptyTuple(v) ==
    \/ v.ty = "None"
    \/ v.ty \in {"str", "bytes"} /\ v.s = <<>>
    \/ v.ty \in {"int", "float"} /\ v.n = 0

\* the body of the counting loop: TRUE when the field adds one payment
MarkerCounts(v) ==
    /\ ~InEmptyTuple(v)
    /\ ~(v.ty \in {"int", "float"} /\ v.n = 0)
    /\ ~(v.ty = "NaT")
    /\ ~(v.ty = "str" /\ Strip(v.s) = <<>>)

CountPayments(row) ==
    Cardinality({k \in DOMAIN row : IsPaymentMarker(k) /\ MarkerCounts(row[k])})

\* variant: "Belum Bayar" without the LAMA > 0 guard
LoanStatusNoTermGuard(angsuran_terbayar, lama, sisa_angsuran) ==
    IF angsuran_terbayar = 0 THEN STATUS_BELUM_BAYAR
    ELSE IF sisa_angsuran <= 0 /\ lama > 0 THEN STATUS_LUNAS
    ELSE STATUS_BERJALAN

LoanStatus(angsuran_terbayar, lama, sisa_angsuran) ==
    IF angsuran_terbayar = 0 /\ lama > 0 THEN STATUS_BELUM_BAYAR
    ELSE IF sisa_angsuran <= 0 /\ lama > 0 THEN STATUS_LUNAS
    ELSE STATUS_BERJALAN

\* variant: the difference without max(..., 0)
SisaAngsuranUnclamped(lama, angsuran_terbayar) == lama - angsuran_terbayar

\* max(r["LAMA"] - angsuran_terbayar, 0)
SisaAngsuran(lama, angsuran_terbayar) ==
    IF lama - angsuran_terbayar > 0 THEN lama - angsuran_terbayar ELSE 0

DerivedKeys ==
    {"NOPEG", "NAMA", "BAGIAN", "JML", "LAMA", "CICIL", "ANGSURAN_KE",
     "SISA_ANGSURAN", "SISA_CICILAN", "TOTAL_TAGIHAN", "DIBAYAR", "STATUS"}

\* the record r after lines 173-192, given the values computed for it
NormalizedRecord(row, angsuran_terbayar, jml, lama, cicil, sisa) ==
    [k \in (DOMAIN row) \cup DerivedKeys |->
        CASE k = "NOPEG" ->
                 PyStr(Strip(PyToStr(PyOr(Get(row, "NOPEG"), PyStr(<<>>)))))
          [] k = "NAMA" ->
                 PyStr(Strip(PyToStr(PyOr(Get(row, "NAMA"), PyStr(<<>>)))))
          [] k = "BAGIAN" ->
                 PyStr(clean_division_name(
                           PyToStr(PyOr(Get(row, "BAGIAN"), PyStr(<<>>)))))
          [] k = "JML" -> jml
          [] k = "LAMA" -> lama
          [] k = "CICIL" -> cicil
          [] k = "ANGSURAN_KE" -> PyInt(angsuran_terbayar)
          [] k = "SISA_ANGSURAN" -> PyInt(sisa)
          [] k = "SISA_CICILAN" -> FMulInt(sisa, cicil)
          [] k = "TOTAL_TAGIHAN" -> FMulInt(lama.n, cicil)
          [] k = "DIBAYAR" -> FMulInt(angsuran_terbayar, cicil)
          [] k = "STATUS" -> PyStr(LoanStatus(angsuran_terbayar, lama.n, sisa))
          [] OTHER -> row[k]]

\* lines 177-182: JML, LAMA and CICIL are converted, then SISA_ANGSURAN
NormalizeWith(row, angsuran_terbayar, jml, lama, cicil) ==
    NormalizedRecord(row, angsuran_terbayar, jml, lama, cicil,
                     SisaAngsuran(lama.n, angsuran_terbayar))

\* variant: the alternative spellings are tried from the last to the first
OrChainReversed(row, k1, k2, k3) ==
    PyOr(PyOr(PyOr(Get(row, k3), Get(row, k2)), Get(row, k1)), PyInt(0))

\* r.get(k1) or r.get(k2) or r.get(k3) or 0
OrChain(row, k1, k2, k3) ==
    PyOr(PyOr(PyOr(Get(row, k1), Get(row, k2)), Get(row, k3)), PyInt(0))

normalize_row(row) ==
    NormalizeWith(row,
        CountPayments(row),
        _to_float_safe(OrChain(row, "JML", "JML_DDL", "JUMLAH"), PyFloat(0, 0)),
        _to_int_safe(PyOr(Get(row, "LAMA"), PyInt(0)), PyInt(0)),
        _to_float_safe(OrChain(row, "CICIL", "BUNGA1", "CICILAN"), PyFloat(0, 0)))

----------------------------------------------------------------------------
(* classify_loan_type                                                      *)

elek_tokens ==
    << <<"e","l","e","k","t","r","o","n","i","k">>,
       <<"e","l","e","k","t","r","o","n">>,
       <<"e","l","e","k">>,
       <<"e","l","e","c">>,
       <<"e","l">>,
       <<"e","l","e","k","t","r","o","n","i","l">>,
       <<"e","l","e","k","t","r","o","n","1">> >>

motor_tokens ==
    << <<"m","o","t","o","r">>,
       <<"m","o","t">>,
       <<"m","t","r">> >>

top_tokens ==
    << <<"t","o","p","u","p">>,
       <<"t","o","p","-","u","p">>,
       <<"t","p","u","p">>,
       <<"t","u">>,
       <<"t","u","p">>,
       <<"t","o","p">> >>

uang_tokens ==
    << <<"u","a","n","g">>,
       <<"u","a">> >>

pinj_tokens ==
    << <<"p","i","n","j","a","m","a","n">>,
       <<"p","i","n","j","a","m">>,
       <<"p","i","n","j">>,
       <<"p","j","m">> >>

cash_tokens ==
    << <<"c","a","s","h">>,
       <<"t","u","n","a","i">>,
       <<"k","a","s">>,
       <<"c","s","h">> >>

dagang_tokens ==
    << <<"d","a","g","a","n","g">>,
       <<"d","g","g">>,
       <<"d","g","n","g">>,
       <<"h","u","t","k","o","p","d","a","g","a","n","g">>,
       <<"h","u","t","k","o","p","1","d","a","g","a","n","g">> >>

HUTKOP_DAGANG == <<"H","u","t","k","o","p"," ","D","a","g","a","n","g">>

ELEKTRONIK_TOP_UP == <<"E","l","e","k","t","r","o","n","i","k"," ","T","o","p"," ","U","p">>

ELEKTRONIK_UANG == <<"E","l","e","k","t","r","o","n","i","k"," ","U","a","n","g">>

ELEKTRONIK_1 == <<"E","l","e","k","t","r","o","n","i","k"," ","1">>

MOTOR_10 == <<"M","o","t","o","r"," ","1","0">>

MOTOR_8 == <<"M","o","t","o","r"," ","8">>

MOTOR_1 == <<"M","o","t","o","r"," ","1">>

TOP_UP_UANG == <<"T","o","p"," ","u","p"," ","u","a","n","g">>

PINJAMAN_CASH == <<"P","i","n","j","a","m","a","n"," ","c","a","s","h">>

PINJAMAN_UANG == <<"P","i","n","j","a","m","a","n"," ","u","a","n","g">>

LAINNYA == <<"L","a","i","n","n","y","a">>

\* os.path.splitext(filename)[0]: cut at the last dot unless only dots precede it
SplitextRoot(filename) ==
    LET dots == {i \in 1..Len(filename) : filename[i] = "."}
    IN  IF dots = {} THEN filename
        ELSE LET d == CHOOSE i \in dots : \A j \in dots : j <= i
             IN  IF \E j \in 1..(d - 1) : filename[j] # "."
                 THEN SubSeq(filename, 1, d - 1)
                 ELSE filename

SafeName(filename) ==
    LET base == Lower(SplitextRoot(filename))
    IN  Replace(Replace(Replace(Replace(base,
            <<"_">>, <<"-">>), <<" ">>, <<"-">>), <<".">>, <<"-">>),
            <<"-","-">>, <<"-">>)

has_num(safe, n) ==
    LET s == NatToChars(n)
    IN  \/ Contains(safe, <<"-">> \o s)
        \/ Contains(safe, s \o <<"-">>)
        \/ EndsWith(safe, s)
        \/ Contains(safe, <<"m","o","t">> \o s)
        \/ Contains(safe, <<"m","t","r">> \o s)

any_in(safe, toks) == \E i \in 1..Len(toks) : Contains(safe, toks[i])

is_elek(safe) == any_in(safe, elek_tokens)

is_motor(safe) == any_in(safe, motor_tokens)

is_top(safe) == any_in(safe, top_tokens)

is_uang(safe) ==
    \/ any_in(safe, uang_tokens)
    \/ Contains(safe, <<"t","o","p","u","p","u","a","n","g">>)
    \/ Contains(safe, <<"p","i","n","j","u","a","n","g">>)

is_pinj(safe) == any_in(safe, pinj_tokens)

is_cash(safe) == any_in(safe, cash_tokens)

is_dagang(safe) == any_in(safe, dagang_tokens)

\* variant: the last rule is also the default
ClassifySafeNoDefault(safe) ==
    IF is_dagang(safe) THEN HUTKOP_DAGANG
    ELSE IF is_elek(safe) /\ is_top(safe) THEN ELEKTRONIK_TOP_UP
    ELSE IF is_cash(safe) THEN PINJAMAN_CASH
    ELSE PINJAMAN_UANG

\* variant: the electronics/top-up rule is tested before the trade rule
ClassifySafeElekFirst(safe) ==
    IF is_elek(safe) /\ is_top(safe) THEN ELEKTRONIK_TOP_UP
    ELSE IF is_dagang(safe) THEN HUTKOP_DAGANG
    ELSE IF is_elek(safe) /\ is_uang(safe) THEN ELEKTRONIK_UANG
    ELSE IF is_elek(safe) /\ (\/ has_num(safe, 1)
                              \/ Contains(safe, <<"e","l","e","k","1">>)
                              \/ Contains(safe, <<"e","l","1">>)) THEN ELEKTRONIK_1
    ELSE IF is_motor(safe) /\ has_num(safe, 10) THEN MOTOR_10
    ELSE IF is_motor(safe) /\ has_num(safe, 8) THEN MOTOR_8
    ELSE IF is_motor(safe) /\ has_num(safe, 1) THEN MOTOR_1
    ELSE IF ~is_elek(safe) /\ is_top(safe) /\ is_uang(safe) THEN TOP_UP_UANG
    ELSE IF is_cash(safe) THEN PINJAMAN_CASH
    ELSE IF ~is_elek(safe) /\ is_pinj(safe) /\ is_uang(safe) THEN PINJAMAN_UANG
    ELSE LAINNYA

\* variant: the three motor rules are tested in ascending order 1, 8, 10
ClassifySafeMotorAscending(safe) ==
    IF is_dagang(safe) THEN HUTKOP_DAGANG
    ELSE IF is_elek(safe) /\ is_top(safe) THEN ELEKTRONIK_TOP_UP
    ELSE IF is_elek(safe) /\ is_uang(safe) THEN ELEKTRONIK_UANG
    ELSE IF is_elek(safe) /\ (\/ has_num(safe, 1)
                              \/ Contains(safe, <<"e","l","e","k","1">>)
                              \/ Contains(safe, <<"e","l","1">>)) THEN ELEKTRONIK_1
    ELSE IF is_motor(safe) /\ (\/ has_num(safe, 1)
                               \/ Contains(safe, <<"m","o","t","1">>)
                               \/ Contains(safe, <<"m","t","r","1">>)) THEN MOTOR_1
    ELSE IF is_motor(safe) /\ has_num(safe, 8) THEN MOTOR_8
    ELSE IF is_motor(safe) /\ has_num(safe, 10) THEN MOTOR_10
    ELSE IF ~is_elek(safe) /\ is_top(safe) /\ is_uang(safe) THEN TOP_UP_UANG
    ELSE IF is_cash(safe) THEN PINJAMAN_CASH
    ELSE IF ~is_elek(safe) /\ is_pinj(safe) /\ is_uang(safe) THEN PINJAMAN_UANG
    ELSE LAINNYA

\* the chain of returns, on the normalized name
ClassifySafe(safe) ==
    IF is_dagang(safe) THEN HUTKOP_DAGANG
    ELSE IF is_elek(safe) /\ is_top(safe) THEN ELEKTRONIK_TOP_UP
    ELSE IF is_elek(safe) /\ is_uang(safe) THEN ELEKTRONIK_UANG
    ELSE IF is_elek(safe) /\ (\/ has_num(safe, 1)
                              \/ Contains(safe, <<"e","l","e","k","1">>)
                              \/ Contains(safe, <<"e","l","1">>)) THEN ELEKTRONIK_1
    ELSE IF is_motor(safe) /\ has_num(safe, 10) THEN MOTOR_10
    ELSE IF is_motor(safe) /\ has_num(safe, 8) THEN MOTOR_8
    ELSE IF is_motor(safe) /\ (\/ has_num(safe, 1)
                               \/ Contains(safe, <<"m","o","t","1">>)
                               \/ Contains(safe, <<"m","t","r","1">>)) THEN MOTOR_1
    ELSE IF ~is_elek(safe) /\ is_top(safe) /\ is_uang(safe) THEN TOP_UP_UANG
    ELSE IF is_cash(safe) THEN PINJAMAN_CASH
    ELSE IF ~is_elek(safe) /\ is_pinj(safe) /\ is_uang(safe) THEN PINJAMAN_UANG
    ELSE LAINNYA

classify_loan_type(filename) == ClassifySafe(SafeName(filename))

----------------------------------------------------------------------------
(* State                                                                   *)

VARIABLES
    uploads,             \* the upload folder: file name -> [rows, corrupt]
    pc,                  \* position of the load_data run
    files,               \* load_data: the list returned by the two globs
    fi,                  \* load_data: index of the next path in files
    all_loans_by_nopeg,  \* load_data: insertion-ordered dict, as (key, loans) pairs
    result,              \* load_data: the returned list
    nrow,                \* normalize_row: the raw record passed in
    nproc,               \* normalize_row: the record returned
    nproc2,              \* normalize_row: the record a second call returns
    npc,                 \* position of the normalize_row call
    cname,               \* classify_loan_type: the file name passed in
    clabel,              \* classify_loan_type: the label returned
    cpc,                 \* position of the classify_loan_type call
    dname,               \* clean_division_name: the text passed in
    dlabel,              \* clean_division_name: the text returned
    dpc,                 \* position of the clean_division_name call
    person,              \* build_bon_story: the employee entry passed in
    jenis_filter,        \* build_bon_story: the loan type selected, or None
    bon_rows,            \* build_bon_story: the rows below the header row
    nrows_for_height,    \* build_bon_story: the row count returned
    bpc,                 \* position of the build_bon_story call
    req,                 \* import_file: per request, the file names it carries
    ipc,                 \* import_file: per request, the position of its handler
    ifile,               \* import_file: per request, index of the file in hand
    ipath,               \* import_file: per request, the name chosen for saving
    clock                \* time.time() in milliseconds

vars == <<uploads, pc, files, fi, all_loans_by_nopeg, result,
          nrow, nproc, nproc2, npc, cname, clabel, cpc, dname, dlabel, dpc,
          person, jenis_filter, bon_rows, nrows_for_height, bpc,
          req, ipc, ifile, ipath, clock>>

loadVars == <<uploads, pc, files, fi, all_loans_by_nopeg, result>>

normVars == <<nrow, nproc, nproc2, npc>>

classVars == <<cname, clabel, cpc>>

divVars == <<dname, dlabel, dpc>>

bonVars == <<person, jenis_filter, bon_rows, nrows_for_height, bpc>>

impVars == <<req, ipc, ifile, ipath, clock>>

EmptyRow == [k \in {} |-> PyNone]

NoUploads == [f \in {} |-> [rows |-> <<>>, corrupt |-> FALSE]]

LoadIdle ==
    /\ uploads = NoUploads
    /\ pc = "off"
    /\ files = <<>>
    /\ fi = 0
    /\ all_loans_by_nopeg = <<>>
    /\ result = <<>>

NormIdle ==
    /\ nrow = EmptyRow
    /\ nproc = EmptyRow
    /\ nproc2 = EmptyRow
    /\ npc = "off"

ClassIdle ==
    /\ cname = <<>>
    /\ clabel = <<>>
    /\ cpc = "off"

DivIdle ==
    /\ dname = <<>>
    /\ dlabel = <<>>
    /\ dpc = "off"

BonIdle ==
    /\ person = <<>>
    /\ jenis_filter = PyNone
    /\ bon_rows = <<>>
    /\ nrows_for_height = 0
    /\ bpc = "off"

ImpIdle ==
    /\ req = <<>>
    /\ ipc = <<>>
    /\ ifile = <<>>
    /\ ipath = <<>>
    /\ clock = 0

----------------------------------------------------------------------------
(* Inputs of normalize_row                                                 *)

MaxMarkers == 3

MarkerKeys == <<"ANG1", "ang2", "Ang3", "ANG4", "ANG5">>

MarkerKeySet == {MarkerKeys[i] : i \in 1..MaxMarkers}

\* stands for a key that the raw record does not have
Absent == [ty |-> "absent", s |-> <<>>, n |-> 0, e |-> 0]

MkRow(full) == [k \in {x \in DOMAIN full : full[x].ty # "absent"} |-> full[k]]

MarkerChoices ==
    {Absent, PyNone, PyStr(<<>>), PyBytes(<<>>), PyInt(0), PyFloat(0, 0),
     PyStr(<<" ">>), PyNaT, PyNaN, PyInt(5)}

LamaChoices ==
    {Absent, PyInt(0), PyInt(10), PyStr(<<" ","3"," ">>),
     PyStr(<<"2",".","7">>), PyNaN}

CicilChoices ==
    {Absent, PyInt(100000), PyStr(<<"1",",","5","0","0",".","5">>), PyNaN}

NormBase ==
    [NOPEG |-> PyStr(<<" ","E","1"," ">>),
     NAMA |-> PyStr(<<"A","n","i">>),
     BAGIAN |-> PyStr(<<"P","e","n","j","u","a","l","a","n">>),
     JML |-> PyInt(1000000),
     TANGGAL |-> PyDate(<<"2","0","2","4","-","0","1","-","0","5">>)]

\* cells of the principal and instalment columns and their alternative
\* spellings: missing, empty, zero, negative, malformed and ordinary ones
JmlChoices ==
    {Absent, PyNone, PyInt(0), PyStr(<<>>), PyInt(1000000), PyInt(-500),
     PyStr(<<"a","b","c">>)}

JmlDdlChoices == {Absent, PyInt(250000)}

JumlahChoices == {Absent, PyStr(<<"3","0","0",",","0","0","0">>)}

CicilAltChoices == {Absent, PyNone, PyInt(0), PyInt(100000), PyStr(<<"-","1",",","5","0","0",".","5">>)}

Bunga1Choices == {Absent, PyInt(5000)}

CicilanChoices == {Absent, PyStr(<<"1",",","5","0","0",".","5">>)}

LamaAltChoices == {PyInt(10), PyInt(-3), PyStr(<<"x">>)}

\* the record without its amount columns, one payment made
AmountBase ==
    [NOPEG |-> PyStr(<<"E","7">>),
     NAMA |-> PyStr(<<"B","u","d","i">>),
     BAGIAN |-> PyStr(<<"m","o","a">>),
     ANG1 |-> PyInt(5)]

\* the records that vary the amount columns
AmountRows ==
    {MkRow(AmountBase @@ [JML |-> j, JML_DDL |-> jd, JUMLAH |-> ju, LAMA |-> l]
                      @@ [CICIL |-> c, BUNGA1 |-> b, CICILAN |-> cn]) :
        j \in JmlChoices, jd \in JmlDdlChoices, ju \in JumlahChoices,
        l \in LamaAltChoices, c \in CicilAltChoices, b \in Bunga1Choices,
        cn \in CicilanChoices}

NormInit ==
    /\ LoadIdle
    /\ ClassIdle
    /\ DivIdle
    /\ BonIdle
    /\ ImpIdle
    /\ \/ \E m \in [MarkerKeySet -> MarkerChoices], l \in LamaChoices, c \in CicilChoices :
             nrow = MkRow(NormBase @@ m @@ [LAMA |-> l, CICIL |-> c])
       \/ nrow \in AmountRows
    /\ nproc = EmptyRow
    /\ nproc2 = EmptyRow
    /\ npc = "input"

\* variant: r = row, the caller's record is the one that is modified
CallerRowAliased(row, r) == r

\* r = dict(row): the caller's record after the call is the one passed in
CallerRow(row, r) == row

Normalize ==
    /\ npc = "input"
    /\ nproc' = normalize_row(nrow)
    /\ nrow' = CallerRow(nrow, normalize_row(nrow))
    /\ npc' = "done"
    /\ UNCHANGED <<nproc2, loadVars, classVars, divVars, bonVars, impVars>>

\* a second call on the record the caller still holds
NormalizeAgain ==
    /\ npc = "done"
    /\ nproc2' = normalize_row(nrow)
    /\ nrow' = CallerRow(nrow, normalize_row(nrow))
    /\ npc' = "again"
    /\ UNCHANGED <<nproc, loadVars, classVars, divVars, bonVars, impVars>>

NormNext == Normalize \/ NormalizeAgain

SpecNorm == NormInit /\ [][NormNext]_vars

----------------------------------------------------------------------------
(* Inputs of classify_loan_type                                            *)

MaxParts == 3

\* a file name is up to MaxParts of these pieces followed by an extension
NamePieces ==
    { <<"d","a","g","a","n","g">>,
      <<"e","l","e","k">>,
      <<"m","o","t","o","r">>,
      <<"t","o","p">>,
      <<"u","a","n","g">>,
      <<"p","i","n","j","a","m","a","n">>,
      <<"c","a","s","h">>,
      <<"t","u">>,
      <<"-">>,
      <<"_">>,
      <<".">>,
      <<" ">>,
      <<"1">>,
      <<"8">>,
      <<"1","0">>,
      <<"x">> }

NameExtensions == {<<".","d","b","f">>, <<".","x","l","s","x">>}

RECURSIVE NameStems(_)
NameStems(k) ==
    IF k = 0 THEN {<<>>}
    ELSE LET shorter == NameStems(k - 1)
         IN  shorter \cup {st \o pc_ : st \in shorter, pc_ \in NamePieces}

\* the file name "pinjaman_uang_<c>.dbf" for a cash alias c
CashExampleName(c) ==
    <<"p","i","n","j","a","m","a","n","_","u","a","n","g","_">> \o c \o <<".","d","b","f">>

\* whole file names passed in besides the composed ones
ExampleNames ==
    {<<"M","o","t","o","r","-","1","0","-","J","a","n","2","0","2","4",".","x","l","s","x">>}
      \cup {CashExampleName(cash_tokens[i]) : i \in 1..Len(cash_tokens)}

ClassInit ==
    /\ LoadIdle
    /\ NormIdle
    /\ DivIdle
    /\ BonIdle
    /\ ImpIdle
    /\ \/ \E st \in NameStems(MaxParts), ext \in NameExtensions : cname = st \o ext
       \/ cname \in ExampleNames
    /\ clabel = <<>>
    /\ cpc = "input"

Classify ==
    /\ cpc = "input"
    /\ clabel' = classify_loan_type(cname)
    /\ cpc' = "done"
    /\ UNCHANGED <<cname, loadVars, normVars, divVars, bonVars, impVars>>

ClassNext == Classify

SpecClassify == ClassInit /\ [][ClassNext]_vars

----------------------------------------------------------------------------
(* Inputs of clean_division_name                                           *)

MaxDivParts == 3

\* a division text is up to MaxDivParts of these pieces
DivisionPieces ==
    { <<" ">>,
      <<"p","e","n","j">>,
      <<"P","E","N","J">>,
      <<"P","e","n","j","u","a","l","a","n">>,
      <<"u","a","l","a","n">>,
      <<"m","o","a">>,
      <<"M"," ","O"," ","A">>,
      <<"T","e","h","n","i","k">>,
      <<"g","b","b">>,
      <<"f"," ","&"," ","a">>,
      <<"x">>,
      <<"-">> }

RECURSIVE DivisionTexts(_)
DivisionTexts(k) ==
    IF k = 0 THEN {<<>>}
    ELSE {t \o p : t \in DivisionTexts(k - 1), p \in DivisionPieces \cup {<<>>}}

DivInit ==
    /\ LoadIdle
    /\ NormIdle
    /\ ClassIdle
    /\ BonIdle
    /\ ImpIdle
    /\ dname \in DivisionTexts(MaxDivParts)
    /\ dlabel = <<>>
    /\ dpc = "input"

CleanDivision ==
    /\ dpc = "input"
    /\ dlabel' = clean_division_name(dname)
    /\ dpc' = "done"
    /\ UNCHANGED <<dname, loadVars, normVars, classVars, bonVars, impVars>>

DivNext == CleanDivision

SpecDivision == DivInit /\ [][DivNext]_vars

----------------------------------------------------------------------------
(* read_dbf_file, read_excel_file and load_data                            *)
(* A file of the upload folder is a record [rows, corrupt]: the records    *)
(* its reader yields, and whether reading it raises.                       *)

\* variant of read_dbf_file: the records yielded before the failure are kept
ReadPartial(file) == file.rows

\* read_dbf_file: the list is built inside the try; on any exception []
read_dbf_file(file) == IF file.corrupt THEN <<>> ELSE file.rows

\* read_excel_file: the same contract for a spreadsheet
read_excel_file(file) == IF file.corrupt THEN <<>> ELSE file.rows

DBF_EXT == <<".","d","b","f">>

XLSX_EXT == <<".","x","l","s","x">>

\* glob.glob(os.path.join(UPLOAD_FOLDER, "*" + ext)): the match is
\* case-sensitive and "*" does not match a leading dot
GlobMatches(folder, ext) ==
    {f \in DOMAIN folder : EndsWith(f, ext) /\ f[1] # "."}

\* the orders in which a directory listing can return a set of names
Orderings(S) ==
    {q \in [1..Cardinality(S) -> S] : \A i, j \in 1..Cardinality(S) : q[i] = q[j] => i = j}

\* proc["SRC_FILE"] = filename; proc["JENIS"] = classify_loan_type(filename)
Tagged(proc, filename) ==
    [k \in (DOMAIN proc) \cup {"SRC_FILE", "JENIS"} |->
        CASE k = "SRC_FILE" -> PyStr(filename)
          [] k = "JENIS" -> PyStr(classify_loan_type(filename))
          [] OTHER -> proc[k]]

\* proc = normalize_row(rec) with SRC_FILE and JENIS set
TagRecord(rec, filename) == Tagged(normalize_row(rec), filename)

\* all_loans_by_nopeg.setdefault(nopeg, []).append(proc)
SetDefaultAppend(dict, nopeg, proc) ==
    IF \E i \in 1..Len(dict) : dict[i].key = nopeg
    THEN [i \in 1..Len(dict) |->
             IF dict[i].key = nopeg
             THEN [key |-> nopeg, loans |-> Append(dict[i].loans, proc)]
             ELSE dict[i]]
    ELSE Append(dict, [key |-> nopeg, loans |-> <<proc>>])

\* variant: a record without employee id is grouped like any other
GroupProcKeepEmpty(dict, proc) == SetDefaultAppend(dict, proc.NOPEG.s, proc)

\* nopeg = proc.get("NOPEG"); if not nopeg: continue; else group it
GroupProc(dict, proc) ==
    IF ~Truthy(Get(proc, "NOPEG")) THEN dict
    ELSE SetDefaultAppend(dict, proc.NOPEG.s, proc)

\* one pass of the inner loop: normalize, tag, drop or group
AddRecord(dict, rec, filename) == GroupProc(dict, TagRecord(rec, filename))

RECURSIVE AddRecords(_, _, _)
AddRecords(dict, raw_data, filename) ==
    IF raw_data = <<>> THEN dict
    ELSE AddRecords(AddRecord(dict, Head(raw_data), filename), Tail(raw_data), filename)

\* sum(l[key] for l in loans) over float fields
RECURSIVE SumFloat(_, _)
SumFloat(loans, key) ==
    IF loans = <<>> THEN PyFloat(0, 0)
    ELSE FAdd(SumFloat(SubSeq(loans, 1, Len(loans) - 1), key), loans[Len(loans)][key])

\* sum(l[key] for l in loans) over int fields
RECURSIVE SumInt(_, _)
SumInt(loans, key) ==
    IF loans = <<>> THEN PyInt(0)
    ELSE PyInt(SumInt(SubSeq(loans, 1, Len(loans) - 1), key).n + loans[Len(loans)][key].n)

\* variant: "Belum Bayar" takes precedence over "Berjalan"
AggregateStatusBelumFirst(loans) ==
    LET statuses == {loans[i].STATUS.s : i \in 1..Len(loans)}
    IN  IF STATUS_BELUM_BAYAR \in statuses THEN STATUS_BELUM_BAYAR
        ELSE IF STATUS_BERJALAN \in statuses THEN STATUS_BERJALAN
        ELSE STATUS_LUNAS

AggregateStatus(loans) ==
    LET statuses == {loans[i].STATUS.s : i \in 1..Len(loans)}
    IN  IF STATUS_BERJALAN \in statuses THEN STATUS_BERJALAN
        ELSE IF STATUS_BELUM_BAYAR \in statuses THEN STATUS_BELUM_BAYAR
        ELSE STATUS_LUNAS

\* variant: the amount paid is summed into the remaining amount
SummaryOfSwapped(loans) ==
    [JML |-> SumFloat(loans, "JML"),
     LAMA |-> SumInt(loans, "LAMA"),
     ANGSURAN_KE |-> SumInt(loans, "ANGSURAN_KE"),
     SISA_ANGSURAN |-> SumInt(loans, "SISA_ANGSURAN"),
     SISA_CICILAN |-> SumFloat(loans, "DIBAYAR"),
     DIBAYAR |-> SumFloat(loans, "DIBAYAR"),
     TOTAL_TAGIHAN |-> SumFloat(loans, "TOTAL_TAGIHAN"),
     STATUS |-> PyStr(AggregateStatus(loans))]

SummaryOf(loans) ==
    [JML |-> SumFloat(loans, "JML"),
     LAMA |-> SumInt(loans, "LAMA"),
     ANGSURAN_KE |-> SumInt(loans, "ANGSURAN_KE"),
     SISA_ANGSURAN |-> SumInt(loans, "SISA_ANGSURAN"),
     SISA_CICILAN |-> SumFloat(loans, "SISA_CICILAN"),
     DIBAYAR |-> SumFloat(loans, "DIBAYAR"),
     TOTAL_TAGIHAN |-> SumFloat(loans, "TOTAL_TAGIHAN"),
     STATUS |-> PyStr(AggregateStatus(loans))]

\* variant: name and division of the first record
EmployeeEntryFirst(nopeg, loans) ==
    [NOPEG |-> PyStr(nopeg),
     NAMA |-> loans[1].NAMA,
     BAGIAN |-> loans[1].BAGIAN,
     SUMMARY |-> SummaryOf(loans),
     DETAILS |-> loans,
     COUNT_PINJAMAN |-> PyInt(Len(loans)),
     JENIS_SET |-> {Get(loans[i], "JENIS").s : i \in 1..Len(loans)}]

\* one element of final_data; JENIS_SET is kept as the set that sorted() lists
EmployeeEntry(nopeg, loans) ==
    [NOPEG |-> PyStr(nopeg),
     NAMA |-> loans[Len(loans)].NAMA,
     BAGIAN |-> loans[Len(loans)].BAGIAN,
     SUMMARY |-> SummaryOf(loans),
     DETAILS |-> loans,
     COUNT_PINJAMAN |-> PyInt(Len(loans)),
     JENIS_SET |-> {Get(loans[i], "JENIS").s : i \in 1..Len(loans)}]

\* variant: the groups come out in reverse insertion order
FinalDataReversed(dict) ==
    [i \in 1..Len(dict) |->
        EmployeeEntry(dict[Len(dict) + 1 - i].key, dict[Len(dict) + 1 - i].loans)]

\* the second loop of load_data, over all_loans_by_nopeg.items()
FinalData(dict) ==
    [i \in 1..Len(dict) |-> EmployeeEntry(dict[i].key, dict[i].loans)]

----------------------------------------------------------------------------
(* Inputs of load_data                                                     *)

MaxFiles == 2

MaxRows == 3

FileNames ==
    { <<"M","o","t","o","r","-","1","0","-","J","a","n","2","0","2","4",".","x","l","s","x">>,
      <<"p","i","n","j","a","m","a","n","_","u","a","n","g","_","c","a","s","h",".","d","b","f">>,
      <<"e","l","e","k","1",".","d","b","f">> }

RowA ==
    [NOPEG |-> PyStr(<<"E","1">>), NAMA |-> PyStr(<<"A","n","i">>), BAGIAN |-> PyStr(<<"p","e","n","j","u","a","l","a","n">>),
     JML |-> PyInt(1000000), LAMA |-> PyInt(10), CICIL |-> PyInt(100000),
     ANG1 |-> PyInt(100000), ang2 |-> PyInt(100000), Ang3 |-> PyInt(100000),
     ANG4 |-> PyNone, ANG5 |-> PyNone]

RowB ==
    [NOPEG |-> PyStr(<<" ","E","1"," ">>), NAMA |-> PyStr(<<"A","n","i"," ","S">>), BAGIAN |-> PyStr(<<"m","o","a">>),
     JML |-> PyInt(250000), LAMA |-> PyInt(5), CICIL |-> PyInt(50000),
     ANG1 |-> PyInt(50000), ang2 |-> PyInt(50000), Ang3 |-> PyInt(50000),
     ANG4 |-> PyInt(50000), ANG5 |-> PyInt(50000)]

RowC ==
    [NOPEG |-> PyStr(<<"E","2">>), NAMA |-> PyStr(<<"B","u","d","i">>), BAGIAN |-> PyStr(<<"t","e","h","n","i","k">>),
     JML |-> PyNaN, JUMLAH |-> PyStr(<<"3","0","0",",","0","0","0">>),
     LAMA |-> PyStr(<<"3">>), CICILAN |-> PyStr(<<"1",",","5","0","0",".","5">>),
     ANG1 |-> PyStr(<<>>)]

RowD ==
    [NOPEG |-> PyStr(<<" "," ">>), NAMA |-> PyStr(<<"T","a","n","p","a">>), BAGIAN |-> PyStr(<<"g","b","b">>),
     JML |-> PyInt(500000), LAMA |-> PyInt(2), CICIL |-> PyInt(250000),
     ANG1 |-> PyInt(250000)]

RowE ==
    [NOPEG |-> PyStr(<<"E","1">>), NAMA |-> PyStr(<<"A","n","i">>), BAGIAN |-> PyStr(<<"Q","u","a","l","i","t","y"," ","c","o","n","t","r","o","l">>),
     JML |-> PyInt(400000), LAMA |-> PyInt(4), CICIL |-> PyFloat(1000005, 1),
     ANG1 |-> PyNone, ang2 |-> PyInt(0)]

LoadRows == {RowA, RowB, RowC, RowD, RowE}

RECURSIVE RowSeqs(_)
RowSeqs(k) ==
    IF k = 0 THEN {<<>>}
    ELSE LET shorter == RowSeqs(k - 1)
         IN  shorter \cup {Append(q, r) : q \in {x \in shorter : Len(x) = k - 1}, r \in LoadRows}

\* the records of all that owner assigns to file f, in order
RECURSIVE RowsOwnedBy(_, _, _)
RowsOwnedBy(all, owner, f) ==
    IF all = <<>> THEN <<>>
    ELSE RowsOwnedBy(SubSeq(all, 1, Len(all) - 1), owner, f)
         \o (IF owner[Len(all)] = f THEN <<all[Len(all)]>> ELSE <<>>)

LoadInit ==
    /\ NormIdle
    /\ ClassIdle
    /\ DivIdle
    /\ BonIdle
    /\ ImpIdle
    /\ \E S \in SUBSET FileNames :
          /\ Cardinality(S) <= MaxFiles
          /\ \E all \in RowSeqs(MaxRows), bad \in SUBSET S :
                \E owner \in [1..Len(all) -> S] :
                   uploads = [f \in S |-> [rows |-> RowsOwnedBy(all, owner, f),
                                           corrupt |-> f \in bad]]
    /\ pc = "start"
    /\ files = <<>>
    /\ fi = 0
    /\ all_loans_by_nopeg = <<>>
    /\ result = <<>>

\* files = glob("*.dbf") + glob("*.xlsx"); if not files: return []
Glob ==
    /\ pc = "start"
    /\ \E d \in Orderings(GlobMatches(uploads, DBF_EXT)),
          x \in Orderings(GlobMatches(uploads, XLSX_EXT)) :
          /\ files' = d \o x
          /\ IF d \o x = <<>>
             THEN /\ result' = <<>>
                  /\ pc' = "done"
                  /\ fi' = fi
             ELSE /\ result' = result
                  /\ pc' = "files"
                  /\ fi' = 1
    /\ all_loans_by_nopeg' = <<>>
    /\ UNCHANGED <<uploads, normVars, classVars, divVars, bonVars, impVars>>

\* one pass of "for path in files": read the file and group its records
ReadFile ==
    /\ pc = "files"
    /\ fi <= Len(files)
    /\ LET path == files[fi]
           raw_data == IF EndsWith(Lower(path), DBF_EXT)
                       THEN read_dbf_file(uploads[path])
                       ELSE read_excel_file(uploads[path])
       IN  all_loans_by_nopeg' = AddRecords(all_loans_by_nopeg, raw_data, path)
    /\ fi' = fi + 1
    /\ UNCHANGED <<uploads, pc, files, result, normVars, classVars, divVars, bonVars, impVars>>

\* the loop over the groups and "return final_data"
Summarize ==
    /\ pc = "files"
    /\ fi > Len(files)
    /\ result' = FinalData(all_loans_by_nopeg)
    /\ pc' = "done"
    /\ UNCHANGED <<uploads, files, fi, all_loans_by_nopeg, normVars, classVars, divVars, bonVars, impVars>>

Next == Glob \/ ReadFile \/ Summarize

Init == LoadInit

Spec == Init /\ [][Next]_vars

----------------------------------------------------------------------------
(* import_file: each request runs the handler in its own thread; the       *)
(* handler tests os.path.exists and calls file.save in separate steps.     *)

ALLOWED_EXTENSIONS == {<<"d","b","f">>, <<"x","l","s","x">>}

\* position of the last "." of the name, 0 when it has none
LastDot(filename) ==
    IF \E i \in 1..Len(filename) : filename[i] = "."
    THEN CHOOSE i \in 1..Len(filename) :
            filename[i] = "." /\ \A j \in (i + 1)..Len(filename) : filename[j] # "."
    ELSE 0

\* "." in filename and filename.rsplit(".", 1)[1].lower() in ALLOWED_EXTENSIONS
allowed_file(filename) ==
    /\ LastDot(filename) > 0
    /\ Lower(SubSeq(filename, LastDot(filename) + 1, Len(filename))) \in ALLOWED_EXTENSIONS

\* werkzeug's secure_filename keeps ASCII letters, digits, "_", "." and "-"
IsSafeChar(c) ==
    IsLowerChar(c) \/ IsUpperChar(c) \/ IsDigit(c) \/ c \in {"_", ".", "-"}

\* "_".join(text.split()) on a text without surrounding white space
RECURSIVE JoinWords(_)
JoinWords(t) ==
    IF t = <<>> THEN <<>>
    ELSE IF Head(t) \in WhitespaceChars THEN <<"_">> \o JoinWords(LStrip(t))
    ELSE <<Head(t)>> \o JoinWords(Tail(t))

\* text.strip("._")
RECURSIVE StripDots(_)
StripDots(t) ==
    IF t # <<>> /\ Head(t) \in {".", "_"} THEN StripDots(Tail(t))
    ELSE IF t # <<>> /\ t[Len(t)] \in {".", "_"} THEN StripDots(SubSeq(t, 1, Len(t) - 1))
    ELSE t

\* secure_filename(file.filename): path separators become spaces, words are
\* joined by "_", other characters are dropped, outer "." and "_" stripped
secure_filename(name) ==
    StripDots(SelectSeq(JoinWords(Strip(Replace(name, <<"/">>, <<" ">>))), IsSafeChar))

\* os.path.splitext(filename)[1]
SplitextExt(filename) ==
    SubSeq(filename, Len(SplitextRoot(filename)) + 1, Len(filename))

\* f"{base}_{ts}{ext}" with ts = int(time.time() * 1000)
StampedName(filename, ts) ==
    SplitextRoot(filename) \o <<"_">> \o NatToChars(ts) \o SplitextExt(filename)

\* the name the handler saves under, from what os.path.exists answered
SavePath(filename, exists, ts) ==
    IF exists THEN StampedName(filename, ts) ELSE filename

MaxRequests == 2

MaxUpload == 2

MaxClock == 1

Requests == 1..MaxRequests

\* the file names browsers send
UploadNames ==
    { <<"k","a","s",".","d","b","f">>,
      <<"K","A","S",".","D","B","F">>,
      <<"k","a","s"," ","d","a","t","a",".","x","l","s","x">>,
      <<"n","o","t","e","s",".","t","x","t">>,
      <<>> }

\* request.files.getlist("file")
RECURSIVE UploadLists(_)
UploadLists(k) ==
    IF k = 0 THEN {<<>>}
    ELSE UploadLists(k - 1)
         \cup {Append(q, n) : q \in {x \in UploadLists(k - 1) : Len(x) = k - 1},
                               n \in UploadNames}

\* what file.save writes: the uploaded table
UploadedFile == [rows |-> <<RowA>>, corrupt |-> FALSE]

ImportInit ==
    /\ NormIdle
    /\ ClassIdle
    /\ DivIdle
    /\ BonIdle
    /\ uploads \in {NoUploads, [f \in {<<"k","a","s",".","d","b","f">>} |-> UploadedFile]}
    /\ pc = "off"
    /\ files = <<>>
    /\ fi = 0
    /\ all_loans_by_nopeg = <<>>
    /\ result = <<>>
    /\ req \in [Requests -> UploadLists(MaxUpload)]
    /\ ipc = [r \in Requests |-> "start"]
    /\ ifile = [r \in Requests |-> 1]
    /\ ipath = [r \in Requests |-> <<>>]
    /\ clock = 0

\* lines 330-337: return when no file was sent or every name is empty
ImportStart(r) ==
    /\ ipc[r] = "start"
    /\ ipc' = [ipc EXCEPT ![r] =
                  IF \A i \in 1..Len(req[r]) : req[r][i] = <<>> THEN "done" ELSE "check"]
    /\ UNCHANGED <<req, ifile, ipath, clock, loadVars, normVars, classVars, divVars, bonVars>>

\* the next index and position after the file in hand is dealt with
AfterFile(r) ==
    /\ ifile' = [ifile EXCEPT ![r] = ifile[r] + 1]
    /\ ipc' = [ipc EXCEPT ![r] = IF ifile[r] + 1 > Len(req[r]) THEN "done" ELSE "check"]

\* lines 341-351: skip an empty or unsupported name, else choose the path
ImportCheck(r) ==
    /\ ipc[r] = "check"
    /\ IF req[r][ifile[r]] = <<>> \/ ~allowed_file(secure_filename(req[r][ifile[r]]))
       THEN /\ AfterFile(r)
            /\ ipath' = ipath
       ELSE /\ ipath' = [ipath EXCEPT ![r] =
                            SavePath(secure_filename(req[r][ifile[r]]),
                                     secure_filename(req[r][ifile[r]]) \in DOMAIN uploads,
                                     clock)]
            /\ ipc' = [ipc EXCEPT ![r] = "save"]
            /\ ifile' = ifile
    /\ UNCHANGED <<req, clock, loadVars, normVars, classVars, divVars, bonVars>>

\* lines 352-354: file.save(filepath) creates the file or replaces it
ImportSave(r) ==
    /\ ipc[r] = "save"
    /\ uploads' = [f \in (DOMAIN uploads) \cup {ipath[r]} |->
                      IF f = ipath[r] THEN UploadedFile ELSE uploads[f]]
    /\ AfterFile(r)
    /\ UNCHANGED <<req, ipath, clock, pc, files, fi, all_loans_by_nopeg, result,
                   normVars, classVars, divVars, bonVars>>

\* a millisecond passes
Tick ==
    /\ clock < MaxClock
    /\ \E r \in Requests : ipc[r] # "done"
    /\ clock' = clock + 1
    /\ UNCHANGED <<req, ipc, ifile, ipath, loadVars, normVars, classVars, divVars, bonVars>>

\* the redirect to the index page after the uploads: the next load_data run
LoadAfterImport ==
    /\ pc = "off"
    /\ \A r \in Requests : ipc[r] = "done"
    /\ pc' = "start"
    /\ UNCHANGED <<uploads, files, fi, all_loans_by_nopeg, result,
                   normVars, classVars, divVars, bonVars, impVars>>

\* the files reset_data removes: glob "*" of the folder, the lower-cased
\* name ending in "." and an allowed extension
ResetTargets(folder) ==
    {f \in DOMAIN folder :
        /\ f[1] # "."
        /\ \E ext \in ALLOWED_EXTENSIONS : EndsWith(Lower(f), <<".">> \o ext)}

ImportNext ==
    \/ \E r \in Requests : ImportStart(r)
    \/ \E r \in Requests : ImportCheck(r)
    \/ \E r \in Requests : ImportSave(r)
    \/ Tick
    \/ LoadAfterImport
    \/ Glob
    \/ ReadFile
    \/ Summarize

SpecImport == ImportInit /\ [][ImportNext]_vars

----------------------------------------------------------------------------
(* build_bon_story: the detail table of one employee's statement.  A row   *)
(* is its five cell texts and the paragraph style of its cells.            *)

\* dict.get(key, default)
GetOr(d, k, default) == IF k \in DOMAIN d THEN d[k] ELSE default

\* _to_num: float(x), or 0.0 when float() raises
_to_num(x) ==
    CASE x.ty = "int" -> PyFloat(x.n, 0)
      [] x.ty \in {"float", "nan"} -> x
      [] x.ty = "str" -> FloatOrDefault(ParseFloat(x.s), PyFloat(0, 0))
      [] OTHER -> PyFloat(0, 0)

\* f > 0 (False for nan)
IsPositive(f) == f.ty # "nan" /\ f.n > 0

\* the digits of f"{i:,}" with "," replaced by "."
RECURSIVE GroupThousands(_)
GroupThousands(chars) ==
    IF Len(chars) <= 3 THEN chars
    ELSE GroupThousands(SubSeq(chars, 1, Len(chars) - 3))
         \o <<".">> \o SubSeq(chars, Len(chars) - 2, Len(chars))

\* f"Rp {int(x):,}".replace(',', '.')
RpText(f) ==
    <<"R","p"," ">>
    \o (IF TruncToInt(f) < 0 THEN <<"-">> ELSE <<>>)
    \o GroupThousands(NatToChars(Abs(TruncToInt(f))))

\* str(int(_to_num(x)))
IntText(x) == PyToStr(PyInt(TruncToInt(_to_num(x))))

\* variant: loans whose remaining balance is zero are kept
KeepDetailAny(d, filter) == ~Truthy(filter) \/ Get(d, "JENIS") = filter

\* the condition of the list comprehension
KeepDetail(d, filter) ==
    /\ (~Truthy(filter) \/ Get(d, "JENIS") = filter)
    /\ IsPositive(_to_num(GetOr(d, "SISA_CICILAN", PyInt(0))))

RECURSIVE FilterDetails(_, _)
FilterDetails(details, filter) ==
    IF details = <<>> THEN <<>>
    ELSE (IF KeepDetail(Head(details), filter) THEN <<Head(details)>> ELSE <<>>)
         \o FilterDetails(Tail(details), filter)

\* sum_cicilan / sum_sisa after the loop
RECURSIVE SumNum(_, _)
SumNum(ds, key) ==
    IF ds = <<>> THEN PyFloat(0, 0)
    ELSE FAdd(SumNum(SubSeq(ds, 1, Len(ds) - 1), key),
              _to_num(GetOr(ds[Len(ds)], key, PyInt(0))))

NO_LOAN_TEXT ==
    <<"T","i","d","a","k"," ","a","d","a"," ","p","i","n","j","a","m","a","n"," ","b","e","r","j","a","l","a","n"," ","(","s","i","s","a"," ","="," ","0"," ","t","i","d","a","k"," ","d","i","t","a","m","p","i","l","k","a","n",")",".">>

TOTAL_TEXT == <<"T","O","T","A","L">>

\* the row appended for one listed loan
LoanRow(d) ==
    [jenis |-> GetOr(d, "JENIS", PyStr(<<"-">>)).s,
     ke |-> IntText(GetOr(d, "ANGSURAN_KE", PyInt(0))),
     tenor |-> IntText(GetOr(d, "LAMA", PyInt(0))),
     cicilan |-> RpText(_to_num(GetOr(d, "CICIL", PyInt(0)))),
     sisa |-> RpText(_to_num(GetOr(d, "SISA_CICILAN", PyInt(0)))),
     style |-> "small"]

TotalRow(ds) ==
    [jenis |-> TOTAL_TEXT, ke |-> <<>>, tenor |-> <<>>,
     cicilan |-> RpText(SumNum(ds, "CICIL")),
     sisa |-> RpText(SumNum(ds, "SISA_CICILAN")),
     style |-> "small_b"]

NoLoanRow ==
    [jenis |-> NO_LOAN_TEXT, ke |-> <<>>, tenor |-> <<>>,
     cicilan |-> <<>>, sisa |-> <<>>, style |-> "small"]

\* variant: the TOTAL row is added for a single listed loan too
BonRowsTotalAlways(ds) ==
    IF ds = <<>> THEN <<NoLoanRow>>
    ELSE [i \in 1..Len(ds) |-> LoanRow(ds[i])] \o <<TotalRow(ds)>>

\* rows[1:], from details_filtered
BonRows(ds) ==
    IF ds = <<>> THEN <<NoLoanRow>>
    ELSE [i \in 1..Len(ds) |-> LoanRow(ds[i])]
         \o (IF Len(ds) > 1 THEN <<TotalRow(ds)>> ELSE <<>>)

\* nrows_for_height
BonRowCount(ds) ==
    IF ds = <<>> THEN 1 ELSE Len(ds) + (IF Len(ds) > 1 THEN 1 ELSE 0)

MaxBonLoans == 3

\* the values of the "jenis" query parameter
JenisFilters == {PyNone, PyStr(MOTOR_10), PyStr(PINJAMAN_CASH), PyStr(LAINNYA)}

\* all_loans_by_nopeg after reading file f1 with records q1, then f2 with q2
BonDict(q1, f1, q2, f2) == AddRecords(AddRecords(<<>>, q1, f1), q2, f2)

\* the employee entries load_data returns for that dict
PersonsOf(dict) == {FinalData(dict)[i] : i \in 1..Len(dict)}

BonInit ==
    /\ LoadIdle
    /\ NormIdle
    /\ ClassIdle
    /\ DivIdle
    /\ ImpIdle
    /\ \E q1 \in RowSeqs(MaxBonLoans), f1, f2 \in FileNames :
          /\ f1 # f2
          /\ \E q2 \in RowSeqs(MaxBonLoans - Len(q1)) :
                person \in PersonsOf(BonDict(q1, f1, q2, f2))
    /\ jenis_filter \in JenisFilters
    /\ bon_rows = <<>>
    /\ nrows_for_height = 0
    /\ bpc = "input"

BuildBon ==
    /\ bpc = "input"
    /\ bon_rows' = BonRows(FilterDetails(person.DETAILS, jenis_filter))
    /\ nrows_for_height' = BonRowCount(FilterDetails(person.DETAILS, jenis_filter))
    /\ bpc' = "done"
    /\ UNCHANGED <<person, jenis_filter, loadVars, normVars, classVars, divVars, impVars>>

BonNext == BuildBon

SpecBon == BonInit /\ [][BonNext]_vars

----------------------------------------------------------------------------
(* Properties of normalize_row (SpecNorm)                                  *)

\* a * 10^b.e = b * 10^a.e: two decimals denote the same number
SameNumber(a, b) ==
    IF a.ty = "nan" \/ b.ty = "nan" THEN a.ty = b.ty
    ELSE a.n * Pow10(b.e) = b.n * Pow10(a.e)

\* i times the decimal a, as a (mantissa, digits) pair
Times(i, a) == [ty |-> a.ty, s |-> <<>>, n |-> i * a.n, e |-> a.e]

\* C3: a normalized record is "Belum Bayar" when payments_made = 0 and
\* term_count > 0, else "Lunas" when installments_remaining <= 0 and
\* term_count > 0, else "Berjalan"; with term_count = 0 it is "Berjalan".
C3_StatusRule ==
    npc = "done" =>
        LET pm == nproc.ANGSURAN_KE.n
            term == nproc.LAMA.n
            rem == nproc.SISA_ANGSURAN.n
        IN  /\ nproc.STATUS.ty = "str"
            /\ nproc.STATUS.s =
                   (IF pm = 0 /\ term > 0 THEN <<"B","e","l","u","m"," ","B","a","y","a","r">>
                    ELSE IF rem <= 0 /\ term > 0 THEN <<"L","u","n","a","s">>
                    ELSE <<"B","e","r","j","a","l","a","n">>)
            /\ (term = 0 => nproc.STATUS.s = <<"B","e","r","j","a","l","a","n">>)

\* a zero-term record with no payment has been normalized to "Berjalan"
C3_Witness ==
    /\ npc = "done"
    /\ nproc.LAMA.n = 0
    /\ nproc.ANGSURAN_KE.n = 0
    /\ nproc.STATUS.s = <<"B","e","r","j","a","l","a","n">>

\* C4: installments_remaining = max(term_count - payments_made, 0),
\* amount_remaining = installments_remaining * installment_amount,
\* amount_billed_total = term_count * installment_amount and
\* amount_paid = payments_made * installment_amount; term 10 with 3 markers
\* filled and installment 100000 gives remaining 7 and 700000.
C4_DerivedFields ==
    npc = "done" =>
        LET pm == nproc.ANGSURAN_KE.n
            term == nproc.LAMA.n
            rem == nproc.SISA_ANGSURAN.n
            cicil == nproc.CICIL
        IN  /\ rem >= 0 /\ rem >= term - pm /\ rem \in {0, term - pm}
            /\ SameNumber(nproc.SISA_CICILAN, Times(rem, cicil))
            /\ SameNumber(nproc.TOTAL_TAGIHAN, Times(term, cicil))
            /\ SameNumber(nproc.DIBAYAR, Times(pm, cicil))
            /\ (term = 10 /\ pm = 3 /\ cicil = PyFloat(100000, 0)
                   => rem = 7 /\ nproc.SISA_CICILAN = PyFloat(700000, 0))

\* the example record has been normalized
C4_Witness ==
    /\ npc = "done"
    /\ nproc.LAMA.n = 10
    /\ nproc.ANGSURAN_KE.n = 3
    /\ nproc.CICIL = PyFloat(100000, 0)
    /\ nproc.SISA_ANGSURAN.n = 7
    /\ nproc.SISA_CICILAN = PyFloat(700000, 0)

\* the payment-marker fields of a raw record of the model
MarkerFieldsOf(row) == {"ANG1", "ang2", "Ang3", "ANG4", "ANG5"} \cap DOMAIN row

\* None, empty text, empty bytes, numeric zero
IsListedEmpty(v) ==
    \/ v = PyNone
    \/ v = PyStr(<<>>)
    \/ v = PyBytes(<<>>)
    \/ v = PyInt(0)
    \/ v = PyFloat(0, 0)

\* text made of white space only (at least one character)
IsBlankText(v) ==
    /\ v.ty = "str"
    /\ v.s # <<>>
    /\ \A i \in 1..Len(v.s) : v.s[i] \in {" ", "\t", "\n", NBSP}

\* C5 as stated: payments_made is the number of fields whose upper-cased name
\* starts with "ANG" and whose value is not absent/None, empty text, empty
\* bytes or numeric zero; every other value counts as one payment.
C5_AsStated ==
    npc = "done" =>
        nproc.ANGSURAN_KE =
            PyInt(Cardinality({k \in MarkerFieldsOf(nrow) : ~IsListedEmpty(nrow[k])}))

\* C5 amended: white-space-only text and the null timestamp NaT are not
\* counted either; every remaining value counts as exactly one payment.
C5_PaymentCount ==
    npc = "done" =>
        nproc.ANGSURAN_KE =
            PyInt(Cardinality({k \in MarkerFieldsOf(nrow) :
                      /\ ~IsListedEmpty(nrow[k])
                      /\ ~IsBlankText(nrow[k])
                      /\ nrow[k] # PyNaT}))

\* a record with a lower-case marker holding a value, a blank marker and a
\* NaN marker has been counted
C5_Witness ==
    /\ npc = "done"
    /\ "ang2" \in DOMAIN nrow /\ nrow["ang2"] = PyInt(5)
    /\ "ANG1" \in DOMAIN nrow /\ nrow["ANG1"] = PyStr(<<" ">>)
    /\ "Ang3" \in DOMAIN nrow /\ nrow["Ang3"] = PyNaN
    /\ nproc.ANGSURAN_KE = PyInt(2)

IsNegative(v) == v.ty \in {"int", "float"} /\ v.n < 0

\* C17: in every normalized record principal_amount, term_count and
\* installment_amount are non-negative
C17_AsStated ==
    npc = "done" =>
        /\ ~IsNegative(nproc.JML)
        /\ ~IsNegative(nproc.LAMA)
        /\ ~IsNegative(nproc.CICIL)

\* the keys of the sequence ks, in order, that satisfy Sel in the raw record
FirstKey3(row, ks, Sel(_, _)) ==
    IF \E i \in 1..3 : Sel(row, ks[i])
    THEN ks[CHOOSE i \in 1..3 : Sel(row, ks[i]) /\ \A j \in 1..(i - 1) : ~Sel(row, ks[j])]
    ELSE "none"

\* the record has the field and its cell holds a value
IsPresent(row, k) == k \in DOMAIN row /\ row[k].ty # "None"

\* the field's value is true in a Python condition: not None, "" or 0
IsNonEmpty(row, k) == k \in DOMAIN row /\ Truthy(row[k])

\* the amount read from the selected key, 0.0 when no key is selected
AmountFrom(row, k) ==
    IF k = "none" THEN PyFloat(0, 0) ELSE _to_float_safe(row[k], PyFloat(0, 0))

JmlKeys == <<"JML", "JML_DDL", "JUMLAH">>

CicilKeys == <<"CICIL", "BUNGA1", "CICILAN">>

\* C18 as stated: the principal is the converted value of the first field
\* present among JML, JML_DDL, JUMLAH (0 when none is), and the instalment
\* amount likewise of CICIL, BUNGA1, CICILAN
C18_AsStated ==
    npc = "done" =>
        /\ nproc.JML = AmountFrom(nrow, FirstKey3(nrow, JmlKeys, IsPresent))
        /\ nproc.CICIL = AmountFrom(nrow, FirstKey3(nrow, CicilKeys, IsPresent))

\* C18: the principal is the converted value of the first field among JML,
\* JML_DDL, JUMLAH whose value is non-empty (not None, not empty text, not
\* zero), and 0 when there is none; the instalment amount likewise of
\* CICIL, BUNGA1, CICILAN
C18_FirstNonEmpty ==
    npc = "done" =>
        /\ nproc.JML = AmountFrom(nrow, FirstKey3(nrow, JmlKeys, IsNonEmpty))
        /\ nproc.CICIL = AmountFrom(nrow, FirstKey3(nrow, CicilKeys, IsNonEmpty))

C18_Witness ==
    /\ npc = "done"
    /\ nrow \in AmountRows
    /\ IsPresent(nrow, "JML")
    /\ ~IsNonEmpty(nrow, "JML")
    /\ IsNonEmpty(nrow, "JML_DDL")
    /\ IsNonEmpty(nrow, "JUMLAH")
    /\ nproc.JML = PyFloat(250000, 0)
    /\ nproc.CICIL = PyFloat(5000, 0)

----------------------------------------------------------------------------
(* Properties of classify_loan_type (SpecClassify)                         *)

LoanTypeLabels ==
    {HUTKOP_DAGANG, ELEKTRONIK_TOP_UP, ELEKTRONIK_UANG, ELEKTRONIK_1, MOTOR_10,
     MOTOR_8, MOTOR_1, TOP_UP_UANG, PINJAMAN_CASH, PINJAMAN_UANG, LAINNYA}

\* one of the ten specific rules matches the normalized name
SomeRuleMatches(safe) ==
    LET one == has_num(safe, 1)
    IN  \/ is_dagang(safe)
        \/ is_elek(safe) /\ is_top(safe)
        \/ is_elek(safe) /\ is_uang(safe)
        \/ is_elek(safe) /\ (one \/ Contains(safe, <<"e","l","e","k","1">>)
                                 \/ Contains(safe, <<"e","l","1">>))
        \/ is_motor(safe) /\ has_num(safe, 10)
        \/ is_motor(safe) /\ has_num(safe, 8)
        \/ is_motor(safe) /\ (one \/ Contains(safe, <<"m","o","t","1">>)
                                  \/ Contains(safe, <<"m","t","r","1">>))
        \/ ~is_elek(safe) /\ is_top(safe) /\ is_uang(safe)
        \/ is_cash(safe)
        \/ ~is_elek(safe) /\ is_pinj(safe) /\ is_uang(safe)

\* C10: for every file name classify_loan_type returns one label of the
\* fixed set of eleven, and returns "Lainnya" exactly when none of the ten
\* specific rules matches.
C10_LabelSet ==
    cpc = "done" =>
        /\ clabel \in LoanTypeLabels
        /\ (clabel = <<"L","a","i","n","n","y","a">>) <=> ~SomeRuleMatches(SafeName(cname))

\* a name that matches no rule and a classified name have been returned
C10_Witness ==
    /\ cpc = "done"
    /\ cname = <<"x","_","8",".","d","b","f">>
    /\ clabel = <<"L","a","i","n","n","y","a">>

\* C11: a file name whose normalized form contains a trade/dagang token is
\* classified 'Hutkop Dagang', whatever other tokens or numbers it contains
C11_DagangFirst ==
    cpc = "done" =>
        ((\E i \in 1..Len(dagang_tokens) : Contains(SafeName(cname), dagang_tokens[i]))
            => clabel = HUTKOP_DAGANG)

C11_Witness ==
    /\ cpc = "done"
    /\ Contains(SafeName(cname), <<"d","a","g","a","n","g">>)
    /\ is_elek(SafeName(cname))
    /\ is_top(SafeName(cname))
    /\ clabel = HUTKOP_DAGANG

\* C12: a name with a motor token and the number 10 in number-adjacent
\* position, and with no trade and no electronics token, is classified
\* 'Motor 10', never 'Motor 1' or 'Motor 8'
C12_Motor10 ==
    cpc = "done" =>
        ((/\ is_motor(SafeName(cname))
          /\ has_num(SafeName(cname), 10)
          /\ ~is_dagang(SafeName(cname))
          /\ ~is_elek(SafeName(cname)))
            => clabel = MOTOR_10)

C12_Witness ==
    /\ cpc = "done"
    /\ cname = <<"M","o","t","o","r","-","1","0","-","J","a","n","2","0","2","4",".","x","l","s","x">>
    /\ has_num(SafeName(cname), 1)
    /\ clabel = MOTOR_10

\* C13: for every alias c of the cash/tunai token set, the file name
\* "pinjaman_uang_<c>.dbf" is classified 'Pinjaman cash'
C13_AsStated ==
    cpc = "done" =>
        ((\E i \in 1..Len(cash_tokens) : cname = CashExampleName(cash_tokens[i]))
            => clabel = PINJAMAN_CASH)

\* C19: the normalized form of a file name holds no two adjacent separators
C19_AsStated ==
    cpc = "done" => ~Contains(SafeName(cname), <<"-","-">>)

----------------------------------------------------------------------------
(* Properties of clean_division_name (SpecDivision)                        *)

\* a text: a finite sequence of characters (never None)
IsText(v) == DOMAIN v = 1..Len(v) /\ \A i \in 1..Len(v) : v[i] \in STRING

\* the text begins, after leading white space and in any letter case, with penj
HasMarketingPrefix(name) ==
    LET t == LStrip(name)
    IN  /\ Len(t) >= 4
        /\ t[1] \in {"p", "P"}
        /\ t[2] \in {"e", "E"}
        /\ t[3] \in {"n", "N"}
        /\ t[4] \in {"j", "J"}

\* C14: clean_division_name returns a text for every text input, and
\* 'Marketing' for every input whose trimmed, lower-cased form starts with penj
C14_DivisionTotal ==
    dpc = "done" =>
        /\ IsText(dlabel)
        /\ (HasMarketingPrefix(dname) => dlabel = MarketingLabel)

C14_Witness ==
    /\ dpc = "done"
    /\ dname = <<" ","P","E","N","J","u","a","l","a","n">>
    /\ dlabel = MarketingLabel

----------------------------------------------------------------------------
(* Properties of load_data (Spec)                                          *)

FloatTotals == {"JML", "SISA_CICILAN", "DIBAYAR", "TOTAL_TAGIHAN"}

IntTotals == {"LAMA", "ANGSURAN_KE", "SISA_ANGSURAN"}

\* the sum of the integers f[i], i in 1..k
RECURSIVE IntSum(_, _)
IntSum(f, k) == IF k = 0 THEN 0 ELSE f[k] + IntSum(f, k - 1)

MaxDigits(loans, key) ==
    CHOOSE d \in {loans[i][key].e : i \in 1..Len(loans)} :
        \A i \in 1..Len(loans) : loans[i][key].e <= d

\* the sum of a float field over the records, on their common denominator
TotalOfField(loans, key) ==
    IF \E i \in 1..Len(loans) : loans[i][key].ty = "nan" THEN PyNaN
    ELSE LET d == MaxDigits(loans, key)
         IN  [ty |-> "float", s |-> <<>>, e |-> d,
              n |-> IntSum([i \in 1..Len(loans) |->
                               loans[i][key].n * Pow10(d - loans[i][key].e)],
                           Len(loans))]

\* C1: in every employee group each aggregate total equals the sum of that
\* field over exactly the records of the group's loans list, and loan_count
\* is the length of that list.
C1_Totals ==
    pc = "done" =>
        \A i \in 1..Len(result) :
            LET loans == result[i].DETAILS
                summary == result[i].SUMMARY
            IN  /\ \A key \in FloatTotals :
                       SameNumber(summary[key], TotalOfField(loans, key))
                /\ \A key \in IntTotals :
                       summary[key] =
                           PyInt(IntSum([j \in 1..Len(loans) |-> loans[j][key].n],
                                        Len(loans)))
                /\ result[i].COUNT_PINJAMAN = PyInt(Len(loans))

\* the example group: a loan with 7 of 10 installments left at 100000 and a
\* paid-off loan are summed to 700000 remaining
C1_Witness ==
    /\ pc = "done"
    /\ \E i \in 1..Len(result) :
          /\ Len(result[i].DETAILS) = 2
          /\ result[i].SUMMARY.SISA_CICILAN = PyFloat(700000, 0)
          /\ result[i].SUMMARY.DIBAYAR = PyFloat(550000, 0)
          /\ result[i].SUMMARY.LAMA = PyInt(15)

StatusesOf(loans) == {loans[j].STATUS.s : j \in 1..Len(loans)}

\* C2: the aggregate status is "Berjalan" if any member loan is "Berjalan",
\* otherwise "Belum Bayar" if any member is "Belum Bayar", otherwise "Lunas".
C2_AggregateStatus ==
    pc = "done" =>
        \A i \in 1..Len(result) :
            LET st == StatusesOf(result[i].DETAILS)
                agg == result[i].SUMMARY.STATUS.s
            IN  /\ <<"B","e","r","j","a","l","a","n">> \in st
                      => agg = <<"B","e","r","j","a","l","a","n">>
                /\ (/\ <<"B","e","r","j","a","l","a","n">> \notin st
                    /\ <<"B","e","l","u","m"," ","B","a","y","a","r">> \in st)
                      => agg = <<"B","e","l","u","m"," ","B","a","y","a","r">>
                /\ agg = <<"L","u","n","a","s">> <=> st = {<<"L","u","n","a","s">>}

\* a group holding all three statuses has been summarised as "Berjalan"
C2_Witness ==
    /\ pc = "done"
    /\ \E i \in 1..Len(result) :
          /\ Cardinality(StatusesOf(result[i].DETAILS)) = 3
          /\ result[i].SUMMARY.STATUS.s = <<"B","e","r","j","a","l","a","n">>

\* the records that the run reads, normalized and tagged, in file-then-row order
RECURSIVE Discovered(_)
Discovered(fs) ==
    IF fs = <<>> THEN <<>>
    ELSE LET f == fs[Len(fs)]
             rows == IF uploads[f].corrupt THEN <<>> ELSE uploads[f].rows
         IN  Discovered(SubSeq(fs, 1, Len(fs) - 1))
             \o [j \in 1..Len(rows) |-> TagRecord(rows[j], f)]

\* C6: no record whose normalized employee_id is empty appears in the loans
\* list of any employee summary, and no summary has an empty employee_id.
C6_NoEmptyId ==
    pc = "done" =>
        \A i \in 1..Len(result) :
            /\ result[i].NOPEG.s # <<>>
            /\ \A j \in 1..Len(result[i].DETAILS) :
                   result[i].DETAILS[j].NOPEG.s # <<>>

\* a run that read a record without employee id next to assignable ones
C6_Witness ==
    /\ pc = "done"
    /\ result # <<>>
    /\ \E k \in 1..Len(Discovered(files)) : Discovered(files)[k].NOPEG.s = <<>>

\* first position of the employee id in the discovered records
FirstSeen(recs, id) ==
    CHOOSE k \in 1..Len(recs) :
        /\ recs[k].NOPEG.s = id
        /\ \A m \in 1..(k - 1) : recs[m].NOPEG.s # id

\* C7: load_data returns exactly one summary per distinct non-empty
\* employee_id among the normalized records, in first-seen order, and each
\* summary's loans list holds that employee's records in discovery order.
C7_GroupOrder ==
    pc = "done" =>
        LET recs == Discovered(files)
            ids == {recs[k].NOPEG.s : k \in 1..Len(recs)} \ {<<>>}
        IN  /\ {result[i].NOPEG.s : i \in 1..Len(result)} = ids
            /\ Len(result) = Cardinality(ids)
            /\ \A i, j \in 1..Len(result) :
                   i < j => FirstSeen(recs, result[i].NOPEG.s)
                                < FirstSeen(recs, result[j].NOPEG.s)
            /\ \A i \in 1..Len(result) :
                   LET Mine(r) == r.NOPEG.s = result[i].NOPEG.s
                   IN  result[i].DETAILS = SelectSeq(recs, Mine)

\* two employees, one of them with loans from two different files, the
\* other one seen between those loans
C7_Witness ==
    /\ pc = "done"
    /\ Len(result) = 2
    /\ Len(result[1].DETAILS) = 2
    /\ result[1].DETAILS[1].SRC_FILE # result[1].DETAILS[2].SRC_FILE
    /\ LET recs == Discovered(files)
       IN  \E k \in 1..Len(recs) :
              /\ recs[k].NOPEG = result[2].NOPEG
              /\ k < Len(recs)
              /\ recs[Len(recs)].NOPEG = result[1].NOPEG

\* C8: employee_name and division of a summary are those of the last record
\* of that employee's loans list.
C8_LastRecordWins ==
    pc = "done" =>
        \A i \in 1..Len(result) :
            LET loans == result[i].DETAILS
            IN  /\ result[i].NAMA = loans[Len(loans)].NAMA
                /\ result[i].BAGIAN = loans[Len(loans)].BAGIAN

\* three loans whose first two records agree on a name and a division that
\* the last record does not have
C8_Witness ==
    /\ pc = "done"
    /\ \E i \in 1..Len(result) :
          LET loans == result[i].DETAILS
          IN  /\ Len(loans) = 3
              /\ loans[1].NAMA = loans[2].NAMA
              /\ loans[3].NAMA # loans[1].NAMA
              /\ loans[3].BAGIAN # loans[1].BAGIAN
              /\ loans[3].BAGIAN # loans[2].BAGIAN
              /\ result[i].NAMA = loans[3].NAMA
              /\ result[i].BAGIAN = loans[3].BAGIAN

\* the run over the listed files that can be read, each with all its records
RECURSIVE GroupsOf(_)
GroupsOf(fs) ==
    IF fs = <<>> THEN <<>>
    ELSE AddRecords(GroupsOf(SubSeq(fs, 1, Len(fs) - 1)),
                    uploads[fs[Len(fs)]].rows, fs[Len(fs)])

Readable(f) == ~uploads[f].corrupt

\* C9: a file whose read fails contributes zero records and load_data
\* returns what it would return if that file were absent from the folder.
C9_FailedFileAbsent ==
    pc = "done" =>
        /\ result = FinalData(GroupsOf(SelectSeq(files, Readable)))
        /\ \A i \in 1..Len(result) : \A j \in 1..Len(result[i].DETAILS) :
               Readable(result[i].DETAILS[j].SRC_FILE.s)

\* a run over a failing file that had yielded assignable records and a
\* readable file: the result is not empty
C9_Witness ==
    /\ pc = "done"
    /\ result # <<>>
    /\ \E f \in DOMAIN uploads :
          /\ uploads[f].corrupt
          /\ \E k \in 1..Len(uploads[f].rows) :
                 normalize_row(uploads[f].rows[k]).NOPEG.s # <<>>

----------------------------------------------------------------------------
(* Properties of build_bon_story (SpecBon)                                 *)

\* the positions in DETAILS of the loans of the selected type that still
\* have a remaining balance
BonListed ==
    {i \in 1..Len(person.DETAILS) :
        /\ (jenis_filter = PyNone \/ person.DETAILS[i].JENIS = jenis_filter)
        /\ person.DETAILS[i].SISA_CICILAN.ty = "float"
        /\ person.DETAILS[i].SISA_CICILAN.n > 0}

\* the table row shows loan d
RowShows(row, d) ==
    /\ row.style = "small"
    /\ row.jenis = d.JENIS.s
    /\ row.ke = PyToStr(d.ANGSURAN_KE)
    /\ row.tenor = PyToStr(d.LAMA)
    /\ row.cicilan = RpText(d.CICIL)
    /\ row.sisa = RpText(d.SISA_CICILAN)

\* the row is the TOTAL row over the loans at positions g[1], ..., g[k]
RowTotals(row, g, k) ==
    /\ row.style = "small_b"
    /\ row.jenis = TOTAL_TEXT
    /\ row.cicilan = RpText(TotalOfField([j \in 1..k |-> person.DETAILS[g[j]]], "CICIL"))
    /\ row.sisa = RpText(TotalOfField([j \in 1..k |-> person.DETAILS[g[j]]], "SISA_CICILAN"))

IsTotalRow(row) == row.style = "small_b" /\ row.jenis = TOTAL_TEXT

\* C15: the rows of a statement are exactly the employee's loans of the
\* selected type with a remaining balance above zero, in their original
\* order, followed by a TOTAL row of the listed instalment amounts and
\* remaining balances if and only if more than one loan is listed
C15_BonRows ==
    bpc = "done" =>
        LET k == Cardinality(BonListed)
        IN  /\ Len(bon_rows) = (IF k = 0 THEN 1 ELSE IF k > 1 THEN k + 1 ELSE k)
            /\ nrows_for_height = Len(bon_rows)
            /\ \E g \in [1..k -> BonListed] :
                   /\ \A a, b \in 1..k : a < b => g[a] < g[b]
                   /\ \A j \in 1..k : RowShows(bon_rows[j], person.DETAILS[g[j]])
                   /\ k > 1 => RowTotals(bon_rows[k + 1], g, k)
            /\ (k > 1) <=> (\E j \in 1..Len(bon_rows) : IsTotalRow(bon_rows[j]))
            /\ k = 0 => bon_rows = <<NoLoanRow>>

C15_Witness ==
    /\ bpc = "done"
    /\ Len(person.DETAILS) = 3
    /\ jenis_filter = PyNone
    /\ Cardinality(BonListed) = 2
    /\ Len(bon_rows) = 3
    /\ IsTotalRow(bon_rows[3])
    /\ \E i \in 1..3 : person.DETAILS[i].SISA_CICILAN.n = 0

----------------------------------------------------------------------------
(* Properties of import_file (SpecImport)                                  *)

\* C20: import_file never writes an upload onto a path that already exists
\* in the upload folder, across any interleaving of import requests
C20_AsStated ==
    [][\A r \in DOMAIN ipc :
          (ipc[r] = "save" /\ ipc'[r] # "save") => ipath[r] \notin DOMAIN uploads]_vars

\* the names in the list of paths the load_data run works on
FilesRead == {files[i] : i \in 1..Len(files)}

\* C21: every file import_file accepted and saved is among the files the
\* next load_data run reads, and the files load_data reads are the
\* supported data files reset_data would delete
C21_AsStated ==
    (ipc # <<>> /\ pc \in {"files", "done"}) =>
        /\ \A f \in DOMAIN uploads : allowed_file(f) => f \in FilesRead
        /\ FilesRead = ResetTargets(uploads)

----------------------------------------------------------------------------
(* Properties of the amounts (SpecNorm, Spec)                               *)

\* a == b on two numbers: a NaN equals nothing, itself included
PyEqual(a, b) == a.ty # "nan" /\ b.ty # "nan" /\ SameNumber(a, b)

IsZero(v) == PyEqual(v, PyFloat(0, 0))

\* the amounts of one normalized record add up, and nothing remains of a
\* paid-off loan
RecordBalanced(r) ==
    /\ (0 <= r.ANGSURAN_KE.n /\ r.ANGSURAN_KE.n <= r.LAMA.n)
           => PyEqual(FAdd(r.DIBAYAR, r.SISA_CICILAN), r.TOTAL_TAGIHAN)
    /\ r.STATUS.s = STATUS_LUNAS => IsZero(r.SISA_CICILAN)

\* C22: for every normalized record with 0 <= payments_made <= term_count,
\* amount_paid + amount_remaining = amount_billed_total; a record with
\* status "Lunas" has amount_remaining = 0, and an employee whose aggregate
\* status is "Lunas" has aggregate amount_remaining = 0
C22_AsStated ==
    /\ npc = "done" => RecordBalanced(nproc)
    /\ pc = "done" =>
           \A i \in 1..Len(result) :
               /\ \A j \in 1..Len(result[i].DETAILS) :
                      RecordBalanced(result[i].DETAILS[j])
               /\ result[i].SUMMARY.STATUS.s = STATUS_LUNAS
                      => IsZero(result[i].SUMMARY.SISA_CICILAN)

====
